---------------------------- MODULE Spec2Model ----------------------------
(***************************************************************************)
(* ProgramTrack (src/app.py): programs registered in system-programs.csv,  *)
(* one <program>-users.csv member store per program directory, and one PDF *)
(* receipt per acknowledged member.                                        *)
(*                                                                         *)
(* Text the code trims, lower-cases or pattern-matches (program keys,      *)
(* national ids, names, data URIs) is a sequence of one-character strings, *)
(* so that strip(), lower(), re.match and split(',') are computed.  Flags  *)
(* (ShowInList, HasReceived) are whole strings.  A timestamp string        *)
(* 'YYYY-MM-DD HH:MM:SS' is the one-element sequence <<second>>, and the   *)
(* empty string is <<>>: fixed-width timestamps compare as their seconds.  *)
(***************************************************************************)
EXTENDS Integers, Sequences, FiniteSets, TLC

(* ------------------------------ bounds -------------------------------- *)
\* programs the registry may hold
MaxPrograms == 2
\* member rows one store may hold
MaxMembers == 2
\* data rows of one uploaded import file
MaxRows == 2
\* last value of the wall clock, in ticks
MaxClock == 2
\* clock ticks per second: strftime('%S') drops the rest
TicksPerSecond == 2
\* receipt files one program directory may hold
MaxPdfs == 2

(* ------------------------------- text --------------------------------- *)
\* characters str.strip() removes
Whitespace == {" ", "\n"}

RECURSIVE lstrip(_)
lstrip(s) == IF s # <<>> /\ Head(s) \in Whitespace THEN lstrip(Tail(s)) ELSE s

RECURSIVE rstrip(_)
rstrip(s) ==
  IF s # <<>> /\ s[Len(s)] \in Whitespace THEN rstrip(SubSeq(s, 1, Len(s) - 1)) ELSE s

\* str.strip()
strip(s) == rstrip(lstrip(s))

lower_char(c) == CASE c = "A" -> "a" [] c = "B" -> "b" [] OTHER -> c

\* str.lower() of a character sequence
lower(s) == [i \in DOMAIN s |-> lower_char(s[i])]

\* str.lower() of a flag string
lower_flag(f) ==
  CASE f = "TRUE" -> "true" [] f = "True" -> "true" [] f = "FALSE" -> "false" [] OTHER -> f

AsciiLetters == {"a", "b", "A", "B"}
AsciiDigits == {"1", "2"}

\* re.match(r'^[a-zA-Z][a-zA-Z0-9_-]*$', name): '$' also matches before one final
\* newline
validate_english_name(name) ==
  LET core == IF name # <<>> /\ name[Len(name)] = "\n"
              THEN SubSeq(name, 1, Len(name) - 1) ELSE name
  IN /\ core # <<>>
     /\ core[1] \in AsciiLetters
     /\ \A i \in 2..Len(core) : core[i] \in AsciiLetters \cup AsciiDigits \cup {"_", "-"}

\* datetime.now().strftime('%Y-%m-%d %H:%M:%S') at clock value t
strftime(t) == <<t \div TicksPerSecond>>

(* ------------------------------ inputs -------------------------------- *)
\* the program directories that can exist under programs/
Dirs == {<<"a">>, <<"b", "1">>}

\* english_name form values
EnglishInputs ==
  { <<>>, <<" ">>, <<"a">>, <<"A">>, <<" ", "a">>, <<"b", "1">>, <<"B", "1", " ">>,
    <<"1", "b">>, <<"b", " ", "1">>, <<"_", "a">> }

\* arabic_name form values
ArabicInputs == { <<>>, <<" ">>, <<"x">>, <<" ", "y">> }

\* program names in URLs and calls
ProgramInputs == Dirs \cup { <<"A">>, <<" ", "a">>, <<"c">> }

\* national ids in calls and URLs
IdInputs == { <<"1">>, <<" ", "1">>, <<"2">> }

\* national ids typed into the verify form
FormIdInputs == IdInputs \cup { <<>>, <<" ">> }

\* full names in calls
NameInputs == { <<"n">>, <<"m">> }

\* the server handles each request on a thread of its own: the requests that can
\* be in their handlers at one time
Requests == { 1, 2 }

\* a thread that is handling no request
Idle == [pc |-> "idle"]

(* ------------------------------- state -------------------------------- *)
VARIABLES
  registry,   \* rows of system-programs.csv, in file order
  dirs,       \* program directories that exist (each with its users csv)
  stores,     \* rows of <program>-users.csv per directory, in file order
  pdfs,       \* receipt files per directory: filename |-> content and mtime
  now,        \* wall clock, in ticks
  last,       \* the last request or call and what it returned
  requests    \* the requests being handled, each at its position in its handler

vars == <<registry, dirs, stores, pdfs, now, last, requests>>

\* a row of system-programs.csv
ProgramRow(e, a, v) == [EnglishName |-> e, ArabicName |-> a, ShowInList |-> v]

\* a row of <program>-users.csv
UserRow(id, name, has, date) ==
  [NationalID |-> id, FullName |-> name, HasReceived |-> has, DateReceived |-> date]

(* ------------------------- Program Registry --------------------------- *)
get_all_programs == registry

get_visible_programs ==
  SelectSeq(get_all_programs, LAMBDA p : lower_flag(p.ShowInList) = "true")

\* the keys the main page lists
visible_keys == [i \in DOMAIN get_visible_programs |-> get_visible_programs[i].EnglishName]

\* index of the first row whose key matches after strip() on both sides, or 0
program_index(english_name) ==
  LET hits == {i \in DOMAIN registry :
                 strip(registry[i].EnglishName) = strip(english_name)}
  IN IF hits = {} THEN 0 ELSE CHOOSE i \in hits : \A j \in hits : i <= j

\* get_program_info(...) is not None
get_program_info(english_name) == program_index(english_name) # 0

\* the directory and the header-only users csv, each only when absent
create_program_folder_buggy(english_name) ==
  /\ dirs' = dirs \cup {english_name}
  /\ stores' = [stores EXCEPT ![english_name] = <<>>]

create_program_folder(english_name) ==
  /\ dirs' = dirs \cup {english_name}
  /\ stores' = stores

(* ------------------------------- Init --------------------------------- *)
\* a fresh installation: ensure_system_csv has written the header-only registry
InitFresh ==
  /\ registry = <<>>
  /\ dirs = {}
  /\ stores = [d \in Dirs |-> <<>>]

\* an installation whose csv files were edited by hand, as the verify page tells
\* the operator to do: a registry row with non-canonical flag text, a member
\* typed into its store, and a program directory the registry does not list
InitEdited ==
  /\ \E v \in {"TRUE", "no"} : registry = <<ProgramRow(<<"a">>, <<"x">>, v)>>
  /\ dirs = Dirs
  /\ stores = [d \in Dirs |-> <<UserRow(<<"1">>, <<"n">>, "false", <<>>)>>]

Init ==
  /\ InitFresh \/ InitEdited
  /\ pdfs = [d \in Dirs |-> {}]
  /\ now = 0
  /\ last = [op |-> "start"]
  /\ requests = [r \in Requests |-> Idle]

(* --------------------------- registry routes -------------------------- *)
\* POST /manage/add
add_program(english_form, arabic_form) ==
  LET english_name == lower(strip(english_form))
      arabic_name == strip(arabic_form)
      done(flash) == last' = [op |-> "add_program", english |-> english_form,
                              arabic |-> arabic_form, flash |-> flash]
  IN IF english_name = <<>> \/ arabic_name = <<>>
     THEN done("error_fields") /\ UNCHANGED <<registry, dirs, stores, pdfs, now, requests>>
     ELSE IF ~validate_english_name(english_name)
     THEN done("error_invalid") /\ UNCHANGED <<registry, dirs, stores, pdfs, now, requests>>
     ELSE IF get_program_info(english_name)
     THEN done("error_exists") /\ UNCHANGED <<registry, dirs, stores, pdfs, now, requests>>
     ELSE /\ Len(registry) < MaxPrograms
          /\ registry' = Append(get_all_programs,
                                ProgramRow(english_name, arabic_name, "true"))
          /\ create_program_folder(english_name)
          /\ done("success")
          /\ UNCHANGED <<pdfs, now, requests>>

toggled_buggy(programs, english_name) ==
  LET hits == {i \in DOMAIN programs : programs[i].EnglishName = english_name}
      first == IF hits = {} THEN 0 ELSE CHOOSE i \in hits : \A j \in hits : i <= j
  IN [i \in DOMAIN programs |->
        IF i = first
        THEN [programs[i] EXCEPT !.ShowInList =
                IF programs[i].ShowInList = "true" THEN "false" ELSE "true"]
        ELSE programs[i]]

\* the rows toggle_program saves: the first row whose key equals english_name
\* exactly has its flag flipped
toggled(programs, english_name) ==
  LET hits == {i \in DOMAIN programs : programs[i].EnglishName = english_name}
      first == IF hits = {} THEN 0 ELSE CHOOSE i \in hits : \A j \in hits : i <= j
  IN [i \in DOMAIN programs |->
        IF i = first
        THEN [programs[i] EXCEPT !.ShowInList =
                IF lower_flag(programs[i].ShowInList) = "true" THEN "false" ELSE "true"]
        ELSE programs[i]]

\* GET /manage/toggle/<english_name>
toggle_program(english_name) ==
  /\ registry' = toggled(get_all_programs, english_name)
  /\ last' = [op |-> "toggle_program", english |-> english_name,
              before |-> visible_keys,
              again |-> (last.op = "toggle_program" /\ last.english = english_name)]
  /\ UNCHANGED <<dirs, stores, pdfs, now, requests>>

RegistryNext ==
  \/ \E e \in EnglishInputs, a \in ArabicInputs : add_program(e, a)
  \/ \E e \in ProgramInputs : toggle_program(e)

RegistrySpec == Init /\ [][RegistryNext]_vars

(* ---------------------------- Member Store --------------------------- *)
\* read_users: the rows of the program's users csv, none when the file is absent
read_users(program_name) ==
  IF program_name \in dirs THEN stores[program_name] ELSE <<>>

first_match_buggy(users, national_id) ==
  LET hits == {i \in DOMAIN users : strip(users[i].NationalID) = national_id}
  IN IF hits = {} THEN 0 ELSE CHOOSE i \in hits : \A j \in hits : i <= j

\* the loop of find_user and update_user_received: the index of the first row
\* whose NationalID matches after strip() on both sides, or 0
first_match(users, national_id) ==
  LET hits == {i \in DOMAIN users : strip(users[i].NationalID) = strip(national_id)}
  IN IF hits = {} THEN 0 ELSE CHOOSE i \in hits : \A j \in hits : i <= j

\* find_user(...): the index of the row it returns, 0 for None
find_user(program_name, national_id) ==
  first_match(read_users(program_name), national_id)

has_user_buggy(users, national_id) ==
  \E i \in DOMAIN users : users[i].NationalID = national_id

\* the duplicate check of add_user_to_program: some row's NationalID matches
\* after strip() on both sides
has_user(users, national_id) ==
  \E i \in DOMAIN users : strip(users[i].NationalID) = strip(national_id)

\* add_user_to_program(program_name, national_id, full_name); open(csv_path, 'w')
\* raises FileNotFoundError when the program directory does not exist
add_user_to_program(program_name, national_id, full_name) ==
  LET users == read_users(program_name)
      done(result) == last' = [op |-> "add_user_to_program", program |-> program_name,
                               id |-> national_id, name |-> full_name,
                               result |-> result]
  IN IF has_user(users, national_id)
     THEN done("duplicate") /\ UNCHANGED <<registry, dirs, stores, pdfs, now, requests>>
     ELSE IF program_name \notin dirs
     THEN done("raised") /\ UNCHANGED <<registry, dirs, stores, pdfs, now, requests>>
     ELSE /\ Len(users) < MaxMembers
          /\ stores' = [stores EXCEPT ![program_name] =
                          Append(users, UserRow(national_id, full_name, "false", <<>>))]
          /\ done("added")
          /\ UNCHANGED <<registry, dirs, pdfs, now, requests>>

stamped_buggy(users, national_id, t) ==
  LET k == first_match(users, national_id)
  IN [i \in DOMAIN users |->
        IF i = k /\ users[i].HasReceived # "true"
        THEN [users[i] EXCEPT !.HasReceived = "true", !.DateReceived = strftime(t)]
        ELSE users[i]]

stamped_unstripped(users, national_id, t) ==
  LET k == first_match_buggy(users, national_id)
  IN [i \in DOMAIN users |->
        IF i = k
        THEN [users[i] EXCEPT !.HasReceived = "true", !.DateReceived = strftime(t)]
        ELSE users[i]]

\* the rows update_user_received writes back at clock value t: the first
\* matching row stamped, the others as read
stamped(users, national_id, t) ==
  LET k == first_match(users, national_id)
  IN [i \in DOMAIN users |->
        IF i = k
        THEN [users[i] EXCEPT !.HasReceived = "true", !.DateReceived = strftime(t)]
        ELSE users[i]]

\* update_user_received(program_name, national_id): the whole table is written
\* back whether or not a row matched; `before` is the DateReceived it replaced
update_user_received(program_name, national_id) ==
  LET users == read_users(program_name)
      k == first_match(users, national_id)
      done(result) == last' = [op |-> "update_user_received", program |-> program_name,
                               id |-> national_id, result |-> result,
                               before |-> IF k = 0 THEN <<>> ELSE users[k].DateReceived]
  IN IF program_name \notin dirs
     THEN done("raised") /\ UNCHANGED <<registry, dirs, stores, pdfs, now, requests>>
     ELSE /\ stores' = [stores EXCEPT ![program_name] = stamped(users, national_id, now)]
          /\ done("written")
          /\ UNCHANGED <<registry, dirs, pdfs, now, requests>>

\* column names import_users_from_csv probes, in order (the Arabic headers are
\* written in Latin letters here)
IdAliases ==
  <<"NationalID", "nationalid", "National ID", "raqm alhawiya", "raqm_alhawiya">>
NameAliases ==
  <<"FullName", "fullname", "Full Name", "alism", "alism alkamil", "alism_alkamil">>

\* an uploaded file after csv.DictReader: the two header cells and, per data row,
\* the cell under each
ImportRows ==
  { <<<<"1">>, <<"n">>>>, <<<<" ", "1">>, <<"m", " ">>>>, <<<<"2">>, <<"n">>>>,
    <<<<" ">>, <<"n">>>>, <<<<"2">>, <<>>>> }
ImportHeaders ==
  { <<"NationalID", "FullName">>, <<"nationalid", "Full Name">>, <<"ID", "FullName">> }
ImportFiles ==
  { [header |-> <<"NationalID", "FullName">>, rows |-> r] :
      r \in UNION { [1..n -> ImportRows] : n \in 0..MaxRows } }
  \cup { [header |-> h, rows |-> <<r>>] :
           h \in ImportHeaders, r \in { <<<<"1">>, <<"n">>>> } }

\* the files uploaded for a program whose directory does not exist
MissingImportFiles == { f \in ImportFiles : Len(f.rows) = 1 }

\* row.get(a1) or row.get(a2) or ... or '': the first alias that is a column of
\* the file and whose cell is not empty
RECURSIVE row_get_any(_, _, _)
row_get_any(header, cells, aliases) ==
  IF aliases = <<>> THEN <<>>
  ELSE LET at == {i \in DOMAIN header : header[i] = Head(aliases)}
           cell == IF at = {} THEN <<>>
                   ELSE cells[CHOOSE i \in at : \A j \in at : j <= i]
       IN IF cell # <<>> THEN cell ELSE row_get_any(header, cells, Tail(aliases))

\* national_id and full_name of a data row as the loop computes them: the first
\* alias with a cell, after strip()
resolved_row(header, cells) ==
  [national_id |-> strip(row_get_any(header, cells, IdAliases)),
   full_name |-> strip(row_get_any(header, cells, NameAliases))]

\* the resolved rows of every file that can be uploaded
resolved == [f \in ImportFiles |-> [i \in DOMAIN f.rows |-> resolved_row(f.header, f.rows[i])]]

\* the loop over the rows: acc is <<existing_users, existing_ids, imported_count,
\* skipped_count>>
RECURSIVE import_rows_buggy(_, _)
import_rows_buggy(rows, acc) ==
  IF rows = <<>> THEN acc
  ELSE LET national_id == Head(rows).national_id
           full_name == Head(rows).full_name
           next == IF national_id # <<>> /\ full_name # <<>>
                   THEN IF national_id \notin acc[2]
                        THEN << Append(acc[1], UserRow(national_id, full_name, "false", <<>>)),
                                acc[2], acc[3] + 1, acc[4] >>
                        ELSE << acc[1], acc[2], acc[3], acc[4] + 1 >>
                   ELSE acc
       IN import_rows_buggy(Tail(rows), next)

RECURSIVE import_rows_upsert(_, _)
import_rows_upsert(rows, acc) ==
  IF rows = <<>> THEN acc
  ELSE LET national_id == Head(rows).national_id
           full_name == Head(rows).full_name
           fresh == UserRow(national_id, full_name, "false", <<>>)
           next == IF national_id # <<>> /\ full_name # <<>>
                   THEN IF national_id \notin acc[2]
                        THEN << Append(acc[1], fresh),
                                acc[2] \cup {national_id}, acc[3] + 1, acc[4] >>
                        ELSE << [i \in DOMAIN acc[1] |->
                                   IF strip(acc[1][i].NationalID) = national_id
                                   THEN fresh ELSE acc[1][i]],
                                acc[2], acc[3], acc[4] + 1 >>
                   ELSE acc
       IN import_rows_upsert(Tail(rows), next)

RECURSIVE import_rows(_, _)
import_rows(rows, acc) ==
  IF rows = <<>> THEN acc
  ELSE LET national_id == Head(rows).national_id
           full_name == Head(rows).full_name
           next == IF national_id # <<>> /\ full_name # <<>>
                   THEN IF national_id \notin acc[2]
                        THEN << Append(acc[1], UserRow(national_id, full_name, "false", <<>>)),
                                acc[2] \cup {national_id}, acc[3] + 1, acc[4] >>
                        ELSE << acc[1], acc[2], acc[3], acc[4] + 1 >>
                   ELSE acc
       IN import_rows(Tail(rows), next)

\* what the uploaded file holds, against the store as it is before the import:
\* the trimmed ids of the rows that have both fields, in file order, the number
\* of data rows, and the trimmed ids and the number of the members enrolled before
Uploaded(program_name, file) ==
  LET wf == SelectSeq(resolved[file],
                      LAMBDA r : r.national_id # <<>> /\ r.full_name # <<>>)
      users == read_users(program_name)
  IN [ids |-> [i \in DOMAIN wf |-> wf[i].national_id],
      rows |-> Len(file.rows),
      existing |-> {strip(users[i].NationalID) : i \in DOMAIN users},
      before |-> Len(users)]

existing_ids_of_buggy(existing_users) ==
  {existing_users[i].NationalID : i \in DOMAIN existing_users}

\* existing_ids: the stored ids, each after strip()
existing_ids_of(existing_users) ==
  {strip(existing_users[i].NationalID) : i \in DOMAIN existing_users}

\* what import_users_from_csv computes from the store and the file:
\* <<existing_users, existing_ids, imported_count, skipped_count>>
imported(existing_users, file) ==
  import_rows(resolved[file], <<existing_users, existing_ids_of(existing_users), 0, 0>>)

\* import_users_from_csv(program_name, file_content); the write's
\* FileNotFoundError is caught and returned as (False, message)
import_users_from_csv(program_name, file) ==
  LET out == imported(read_users(program_name), file)
      done(ok) == last' = [op |-> "import_users_from_csv", program |-> program_name,
                           ok |-> ok, imported |-> out[3], skipped |-> out[4],
                           uploaded |-> Uploaded(program_name, file)]
  IN IF program_name \notin dirs
     THEN done(FALSE) /\ UNCHANGED <<registry, dirs, stores, pdfs, now, requests>>
     ELSE /\ Len(out[1]) <= MaxMembers
          /\ stores' = [stores EXCEPT ![program_name] = out[1]]
          /\ done(TRUE)
          /\ UNCHANGED <<registry, dirs, pdfs, now, requests>>

\* the wall clock advances
Tick ==
  /\ now < MaxClock
  /\ now' = now + 1
  /\ last' = [op |-> "tick"]
  /\ UNCHANGED <<registry, dirs, stores, pdfs, requests>>

\* program calls of the Member Store: the provisioned program, and a name no
\* directory has
StorePrograms == { <<"a">>, <<" ", "a">> }

\* one program registered and provisioned, nobody enrolled yet
InitStore ==
  /\ registry = << ProgramRow(<<"a">>, <<"x">>, "true") >>
  /\ dirs = { <<"a">> }
  /\ stores = [d \in Dirs |-> <<>>]
  /\ pdfs = [d \in Dirs |-> {}]
  /\ now = 0
  /\ last = [op |-> "start"]
  /\ requests = [r \in Requests |-> Idle]

(* ------------------------------ receipts ------------------------------ *)
\* the signature form field: a data URI cut into the prefix 'data:image', the
\* commas and the text between them
SignatureInputs ==
  { <<>>, <<"x">>, <<"data:image">>, <<"data:image", ",">>,
    <<"data:image", ",", "junk">>, <<"data:image", ";base64", ",", "PNG">>,
    <<"data:image", ";base64", ",", "PNGA", ",", "junk">> }

\* the texts base64.b64decode and Image.open turn into an image: an opaque one
\* and one with an alpha channel, which is pasted on a white background
ImagePayloads == { <<"PNG">>, <<"PNGA">> }

\* signature_data.split(',')[1], or <<"IndexError">> when there is no comma
split_1(signature_data) ==
  LET commas == {i \in DOMAIN signature_data : signature_data[i] = ","}
      first == CHOOSE i \in commas : \A j \in commas : i <= j
      after == {i \in commas : i > first}
      stop == IF after = {} THEN Len(signature_data) + 1
              ELSE CHOOSE i \in after : \A j \in after : i <= j
  IN IF commas = {} THEN <<"IndexError">>
     ELSE SubSeq(signature_data, first + 1, stop - 1)

\* what generate_pdf draws under the signature label: the image, the placeholder
\* text of the except branch, or nothing when the if is not entered
signature_region(signature_data) ==
  IF signature_data # <<>> /\ signature_data[1] = "data:image"
  THEN IF split_1(signature_data) \in ImagePayloads THEN "image" ELSE "placeholder"
  ELSE "none"

\* the files of a program directory after c.save() at clock value t: the receipt
\* <national_id>.pdf is created or overwritten
saved(files, national_id, signature_data, t) ==
  LET path == Append(national_id, ".pdf")
  IN {f \in files : f.file # path}
       \cup {[file |-> path, mtime |-> t, signature |-> signature_region(signature_data)]}

\* generate_pdf(program_name, national_id, full_name, signature_data); c.save()
\* raises when the program directory does not exist
generate_pdf(program_name, national_id, signature_data) ==
  LET done(result) == last' = [op |-> "generate_pdf", program |-> program_name,
                               id |-> national_id, signature |-> signature_data,
                               result |-> result]
  IN IF program_name \notin dirs
     THEN done("raised") /\ UNCHANGED <<registry, dirs, stores, pdfs, now, requests>>
     ELSE /\ Cardinality(saved(pdfs[program_name], national_id, signature_data, now))
               <= MaxPdfs
          /\ pdfs' = [pdfs EXCEPT ![program_name] =
                        saved(pdfs[program_name], national_id, signature_data, now)]
          /\ done("saved")
          /\ UNCHANGED <<registry, dirs, stores, now, requests>>

sort_newest_first_buggy(entries) == entries

\* pdfs.sort(key=date, reverse=True): descending, entries of one date in the
\* order they had
RECURSIVE sort_newest_first(_)
sort_newest_first(entries) ==
  IF entries = <<>> THEN <<>>
  ELSE LET x == Head(entries)
           rest == sort_newest_first(Tail(entries))
           ahead == {i \in DOMAIN rest : rest[i].date[1] > x.date[1]}
       IN SubSeq(rest, 1, Cardinality(ahead)) \o <<x>>
            \o SubSeq(rest, Cardinality(ahead) + 1, Len(rest))

\* the name shown for a receipt whose member is not in the store
Unknown == <<"?">>

\* get_program_pdfs(english_name) when os.listdir yields the files in `listed` order
get_program_pdfs(english_name, listed) ==
  LET users == read_users(english_name)
      entry(f) ==
        LET national_id == SelectSeq(f.file, LAMBDA c : c # ".pdf")
            k == first_match(users, national_id)
        IN [filename |-> f.file, national_id |-> national_id,
            user_name |-> IF k = 0 THEN Unknown ELSE users[k].FullName,
            date |-> strftime(f.mtime)]
  IN sort_newest_first([i \in DOMAIN listed |-> entry(listed[i])])

\* the orders os.listdir may yield the receipts of a directory in
listdir(program_name) ==
  LET files == IF program_name \in dirs THEN pdfs[program_name] ELSE {}
  IN {o \in [1..Cardinality(files) -> files] : \A i, j \in DOMAIN o : o[i] = o[j] => i = j}

\* GET /manage/pdfs/<english_name>; `acknowledged` is the id of the request
\* before, when that was a successful acknowledgment in this program
view_pdfs(english_name) ==
  LET acknowledged == IF /\ last.op = "acknowledgment"
                         /\ last.result = "success"
                         /\ last.program = english_name
                      THEN <<last.id>> ELSE <<>>
  IN /\ IF ~get_program_info(english_name)
        THEN last' = [op |-> "view_pdfs", program |-> english_name,
                      result |-> "no_program", pdfs |-> <<>>,
                      acknowledged |-> acknowledged]
        ELSE \E listed \in listdir(english_name) :
               last' = [op |-> "view_pdfs", program |-> english_name,
                        result |-> "listed",
                        pdfs |-> get_program_pdfs(english_name, listed),
                        acknowledged |-> acknowledged]
     /\ UNCHANGED <<registry, dirs, stores, pdfs, now, requests>>

ReceiptNext ==
  \/ \E p \in StorePrograms, id \in IdInputs, sig \in SignatureInputs :
       generate_pdf(p, id, sig)
  \/ \E p \in StorePrograms : view_pdfs(p)
  \/ Tick

ReceiptSpec == InitStore /\ [][ReceiptNext]_vars

(* ----------------------------- the routes ----------------------------- *)
\* program names in the URLs of the member pages: a registered one, an unknown one
FlowPrograms == { <<"a">>, <<"c">> }
\* the add-program form as filled in on these pages
FlowEnglish == { <<"A">>, <<"1", "b">> }
FlowArabic == { <<"x">> }
\* full names typed into the add-member form
FormNames == { <<>>, <<" ", "n">> }
\* national ids in the acknowledgment URL
AckIds == { <<"1">>, <<"2">> }
\* the signature field of the acknowledgment form
AckSignatures == { <<>>, <<"x">>, <<"data:image", ";base64", ",", "PNG">> }

\* POST /manage/edit/<english_name> with action=add_user; the call it makes is
\* the one recorded
edit_program_add_user(english_name, national_id_form, full_name_form) ==
  LET national_id == strip(national_id_form)
      full_name == strip(full_name_form)
      done(result) == last' = [op |-> "edit_program", program |-> english_name,
                               result |-> result]
  IN IF ~get_program_info(english_name)
     THEN done("no_program") /\ UNCHANGED <<registry, dirs, stores, pdfs, now, requests>>
     ELSE IF national_id = <<>> \/ full_name = <<>>
     THEN done("error_fields") /\ UNCHANGED <<registry, dirs, stores, pdfs, now, requests>>
     ELSE add_user_to_program(english_name, national_id, full_name)

\* POST /verify/<program_name>
verify(program_name, national_id_form) ==
  LET national_id == strip(national_id_form)
      k == find_user(program_name, national_id)
      done(result) == last' = [op |-> "verify", program |-> program_name,
                               id |-> national_id, result |-> result]
  IN /\ IF ~get_program_info(program_name) THEN done("no_program")
        ELSE IF national_id = <<>> THEN done("error_empty")
        ELSE IF k = 0 THEN done("not_found")
        ELSE IF lower_flag(read_users(program_name)[k].HasReceived) = "true"
        THEN done("already_received")
        ELSE done("redirect")
     /\ UNCHANGED <<registry, dirs, stores, pdfs, now, requests>>

\* POST /acknowledgment/<program_name>/<national_id>
acknowledgment(program_name, national_id, signature_data) ==
  LET users == read_users(program_name)
      done(result) == last' = [op |-> "acknowledgment", program |-> program_name,
                               id |-> national_id, result |-> result]
  IN IF find_user(program_name, national_id) = 0
     THEN done("not_found") /\ UNCHANGED <<registry, dirs, stores, pdfs, now, requests>>
     ELSE IF signature_data = <<>>
     THEN done("no_signature") /\ UNCHANGED <<registry, dirs, stores, pdfs, now, requests>>
     ELSE /\ Cardinality(saved(pdfs[program_name], national_id, signature_data, now))
               <= MaxPdfs
          /\ stores' = [stores EXCEPT ![program_name] = stamped(users, national_id, now)]
          /\ pdfs' = [pdfs EXCEPT ![program_name] =
                        saved(pdfs[program_name], national_id, signature_data, now)]
          /\ done("success")
          /\ UNCHANGED <<registry, dirs, now, requests>>

Next ==
  \/ \E e \in FlowEnglish, a \in FlowArabic : add_program(e, a)
  \/ \E p \in FlowPrograms, id \in FormIdInputs, n \in FormNames :
       edit_program_add_user(p, id, n)
  \/ \E p \in FlowPrograms, id \in FormIdInputs : verify(p, id)
  \/ \E p \in FlowPrograms, id \in AckIds, sig \in AckSignatures :
       acknowledgment(p, id, sig)
  \/ \E p \in FlowPrograms : view_pdfs(p)
  \/ Tick

Spec == Init /\ [][Next]_vars

(* -------------------- the handlers, call by call ---------------------- *)
\* national ids in the acknowledgment URL as a client may write it
UrlIds == { <<"1">>, <<" ", "1">>, <<"2">> }

\* POST /acknowledgment/<program_name>/<national_id>, up to the return of
\* update_user_received: the member is looked up, the signature is required and
\* the store is written; generate_pdf is still to be called
acknowledgment_update_user_received(r, program_name, national_id, signature_data) ==
  LET users == read_users(program_name)
      done(result) == last' = [op |-> "acknowledgment", program |-> program_name,
                               id |-> national_id, result |-> result]
  IN /\ requests[r] = Idle
     /\ IF find_user(program_name, national_id) = 0
        THEN done("not_found") /\ UNCHANGED <<registry, dirs, stores, pdfs, now, requests>>
        ELSE IF signature_data = <<>>
        THEN done("no_signature") /\ UNCHANGED <<registry, dirs, stores, pdfs, now, requests>>
        ELSE /\ stores' = [stores EXCEPT ![program_name] = stamped(users, national_id, now)]
             /\ requests' = [requests EXCEPT ![r] =
                               [pc |-> "generate_pdf", program |-> program_name,
                                id |-> national_id, signature |-> signature_data]]
             /\ done("recorded")
             /\ UNCHANGED <<registry, dirs, pdfs, now>>

\* the rest of the handler: generate_pdf and the success page.  c.save() opens
\* <national_id>.pdf for writing; when the file system refuses the name or the
\* write, the exception leaves the handler with the store already written
acknowledgment_generate_pdf(r) ==
  LET q == requests[r]
      done(result) == last' = [op |-> "acknowledgment", program |-> q.program,
                               id |-> q.id, result |-> result]
  IN /\ q.pc = "generate_pdf"
     /\ requests' = [requests EXCEPT ![r] = Idle]
     /\ \E written \in BOOLEAN :
          IF written
          THEN /\ Cardinality(saved(pdfs[q.program], q.id, q.signature, now)) <= MaxPdfs
               /\ pdfs' = [pdfs EXCEPT ![q.program] =
                             saved(pdfs[q.program], q.id, q.signature, now)]
               /\ done("success")
          ELSE /\ pdfs' = pdfs
               /\ done("raised")
     /\ UNCHANGED <<registry, dirs, stores, now>>

\* the acknowledgment page served to one client at a time
AckRequests == { 1 }

AckNext ==
  \/ \E id \in IdInputs, n \in FormNames : edit_program_add_user(<<"a">>, id, n)
  \/ \E r \in AckRequests, id \in UrlIds, sig \in AckSignatures :
       acknowledgment_update_user_received(r, <<"a">>, id, sig)
  \/ \E r \in AckRequests : acknowledgment_generate_pdf(r)
  \/ Tick

AckSpec == InitStore /\ [][AckNext]_vars

(* ------------- the Member Store functions, read and write ------------- *)
\* Each mutating function reads the whole users csv into a list, changes the
\* list, and opens the file for writing to write the list back.  A request is
\* Idle, then holds the list it is about to write (pc = "write"), then is done.
\* `seen` is the set of requests that were done when the file was read, `turn`
\* the position of the write among the writes so far (0: nothing was written).

\* the program has one member, enrolled and not yet received
InitEnrolled ==
  /\ registry = << ProgramRow(<<"a">>, <<"x">>, "true") >>
  /\ dirs = { <<"a">> }
  /\ stores = [d \in Dirs |->
                 IF d = <<"a">> THEN <<UserRow(<<"1">>, <<"n">>, "false", <<>>)>> ELSE <<>>]
  /\ pdfs = [d \in Dirs |-> {}]
  /\ now = 0
  /\ last = [op |-> "start"]
  /\ requests = [r \in Requests |-> Idle]

\* the requests that have returned
finished == {x \in Requests : requests[x].pc = "done"}

\* the number of writes of the users csv so far
writes == Cardinality({x \in finished : requests[x].turn > 0})

written_stale(q) == q.read

\* the rows a request writes: the list it holds
written(q) == q.users

\* with open(csv_path, 'w') ... writer.writerows(users), and the return, in a
\* program directory that exists
write_users(r, function) ==
  LET q == requests[r]
  IN /\ q.pc = "write"
     /\ q.op = function
     /\ Len(written(q)) <= MaxMembers
     /\ stores' = [stores EXCEPT ![q.program] = written(q)]
     /\ requests' = [requests EXCEPT ![r] =
                       [pc |-> "done", op |-> q.op, program |-> q.program, id |-> q.id,
                        ids |-> q.ids, result |-> q.result, users |-> q.users,
                        seen |-> q.seen, turn |-> writes + 1]]
     /\ last' = [op |-> function, request |-> r, step |-> "write"]
     /\ UNCHANGED <<registry, dirs, pdfs, now>>

\* a request that holds a list to write, or has returned without writing
holding(function, program_name, national_id, ids, result, read, users, writing) ==
  [pc |-> IF writing THEN "write" ELSE "done", op |-> function,
   program |-> program_name, id |-> national_id, ids |-> ids, result |-> result,
   read |-> read, users |-> users, seen |-> finished, turn |-> 0]

\* add_user_to_program up to users.append(...): a duplicate returns here
add_user_to_program_read(r, program_name, national_id, full_name) ==
  LET users == read_users(program_name)
      dup == has_user(users, national_id)
  IN /\ requests[r] = Idle
     /\ requests' = [requests EXCEPT ![r] =
          holding("add_user_to_program", program_name, national_id, <<>>,
                  IF dup THEN "duplicate" ELSE "added", users,
                  Append(users, UserRow(national_id, full_name, "false", <<>>)), ~dup)]
     /\ last' = [op |-> "add_user_to_program", request |-> r, step |-> "read"]
     /\ UNCHANGED <<registry, dirs, stores, pdfs, now>>

add_user_to_program_write(r) == write_users(r, "add_user_to_program")

\* update_user_received up to the end of its loop
update_user_received_read(r, program_name, national_id) ==
  LET users == read_users(program_name)
  IN /\ requests[r] = Idle
     /\ requests' = [requests EXCEPT ![r] =
          holding("update_user_received", program_name, national_id, <<>>,
                  IF first_match(users, national_id) = 0 THEN "no_match" ELSE "marked",
                  users, stamped(users, national_id, now), TRUE)]
     /\ last' = [op |-> "update_user_received", request |-> r, step |-> "read"]
     /\ UNCHANGED <<registry, dirs, stores, pdfs, now>>

update_user_received_write(r) == write_users(r, "update_user_received")

\* import_users_from_csv up to the end of its loop; ids are the ids it appended
import_users_from_csv_read(r, program_name, file) ==
  LET users == read_users(program_name)
      out == imported(users, file)
      new == SubSeq(out[1], Len(users) + 1, Len(out[1]))
  IN /\ requests[r] = Idle
     /\ requests' = [requests EXCEPT ![r] =
          holding("import_users_from_csv", program_name, <<>>,
                  [i \in DOMAIN new |-> new[i].NationalID], "imported",
                  users, out[1], TRUE)]
     /\ last' = [op |-> "import_users_from_csv", request |-> r, step |-> "read"]
     /\ UNCHANGED <<registry, dirs, stores, pdfs, now>>

import_users_from_csv_write(r) == write_users(r, "import_users_from_csv")

\* the ids and the files of the concurrent calls
RaceIds == { <<"1">>, <<"2">> }
RaceFiles == { f \in MissingImportFiles : f.header = <<"NationalID", "FullName">> }

RaceNext ==
  \/ \E r \in Requests, id \in RaceIds : add_user_to_program_read(r, <<"a">>, id, <<"m">>)
  \/ \E r \in Requests : add_user_to_program_write(r)
  \/ \E r \in Requests, id \in RaceIds : update_user_received_read(r, <<"a">>, id)
  \/ \E r \in Requests : update_user_received_write(r)
  \/ \E r \in Requests, f \in RaceFiles : import_users_from_csv_read(r, <<"a">>, f)
  \/ \E r \in Requests : import_users_from_csv_write(r)
  \/ Tick

RaceSpec == InitEnrolled /\ [][RaceNext]_vars

(* ---------------------- claims on the registry ------------------------ *)
\* the key pattern: a letter followed by letters, digits, underscore or hyphen
KeyPattern(e) ==
  /\ Len(e) >= 1
  /\ e[1] \in {"a", "b", "A", "B"}
  /\ \A i \in 2..Len(e) : e[i] \in {"a", "b", "A", "B", "1", "2", "_", "-"}

\* a program with key e is in the registry rows
KeyExists(rows, e) == \E i \in DOMAIN rows : rows[i].EnglishName = e

\* C6: toggling an existing program twice in a row restores the visibility the
\* main page showed before the first toggle; a toggle changes no other program's
\* row; a toggle of a key the registry does not hold leaves the rows as they were
C6_ToggleTwice ==
  [][last'.op = "toggle_program" =>
       /\ Len(registry') = Len(registry)
       /\ \A i \in DOMAIN registry :
            registry[i].EnglishName # last'.english => registry'[i] = registry[i]
       /\ ~KeyExists(registry, last'.english) => registry' = registry
       /\ (last'.again /\ KeyExists(registry, last'.english))
            => /\ visible_keys' = last.before
               /\ visible_keys # last.before]_vars

C6_Witness ==
  /\ last.op = "toggle_program"
  /\ last.again
  /\ KeyExists(registry, last.english)

\* what Program add must do with fields e and a, given the rows and stores before
AddProgramContract(e, a) ==
  IF e = <<>> \/ a = <<>> \/ ~KeyPattern(e) \/ KeyExists(registry, e)
  THEN /\ last'.flash # "success"
       /\ registry' = registry
       /\ dirs' = dirs
       /\ stores' = stores
  ELSE /\ last'.flash = "success"
       /\ registry' = Append(registry, ProgramRow(e, a, "true"))
       /\ dirs' = dirs \cup {e}
       /\ stores' = stores

\* C7 as stated, on the submitted fields: Program add fails, changing nothing, if
\* a field is empty, englishName does not match the key pattern or the key exists;
\* otherwise it appends one visible row and provisions the store, overwriting none
C7_AsStated ==
  [][last'.op = "add_program" => AddProgramContract(last'.english, last'.arabic)]_vars

\* C7 amended: the same contract on the fields as the route normalises them
\* (both trimmed, englishName also lower-cased)
C7_AddProgram ==
  [][last'.op = "add_program" =>
       AddProgramContract(lower(strip(last'.english)), strip(last'.arabic))]_vars

\* a program was added over a directory that already held a member store
C7_Witness ==
  /\ last.op = "add_program"
  /\ last.flash = "success"
  /\ stores[lower(strip(last.english))] # <<>>

(* ------------------------ Member Store as called ---------------------- *)
StoreNext ==
  \/ \E p \in StorePrograms, id \in IdInputs, n \in NameInputs :
       add_user_to_program(p, id, n)
  \/ \E f \in ImportFiles : import_users_from_csv(<<"a">>, f)
  \/ \E f \in MissingImportFiles : import_users_from_csv(<<" ", "a">>, f)
  \/ \E p \in StorePrograms, id \in IdInputs : update_user_received(p, id)
  \/ Tick

StoreSpec == InitStore /\ [][StoreNext]_vars

(* --------------------- claims on the Member Store --------------------- *)
\* the row with national id `id` (compared after trimming) is in `users`
Enrolled(users, id) == \E i \in DOMAIN users : strip(users[i].NationalID) = strip(id)

\* C1: add with a nationalId already present (compared after trimming) returns
\* the duplicate outcome and leaves every member store as it was: same rows, same
\* contents, same order
C1_DuplicateAdd ==
  [][(/\ last'.op = "add_user_to_program"
      /\ last'.program \in dirs
      /\ Enrolled(stores[last'.program], last'.id))
       => /\ last'.result = "duplicate"
          /\ stores' = stores
          /\ dirs' = dirs]_vars

\* a duplicate add whose id differs from the stored one only by whitespace
C1_Witness ==
  /\ last.op = "add_user_to_program"
  /\ last.result = "duplicate"
  /\ \E i \in DOMAIN stores[last.program] :
       /\ stores[last.program][i].NationalID # last.id
       /\ strip(stores[last.program][i].NationalID) = strip(last.id)

\* C2: after add of a non-empty (nationalId, fullName) whose nationalId was not
\* present in an existing store, find(nationalId) returns a record with that
\* nationalId and fullName, HasReceived 'false' and an empty DateReceived
C2_AddThenFind ==
  [][(/\ last'.op = "add_user_to_program"
      /\ last'.program \in dirs
      /\ last'.id # <<>> /\ last'.name # <<>>
      /\ ~Enrolled(stores[last'.program], last'.id))
       => LET users == stores'[last'.program]
              k == first_match(users, last'.id)
          IN /\ k # 0
             /\ users[k] = UserRow(last'.id, last'.name, "false", <<>>)]_vars

\* a member was added under an id that carries whitespace, and find returns it
C2_Witness ==
  /\ last.op = "add_user_to_program"
  /\ last.result = "added"
  /\ strip(last.id) # last.id
  /\ find_user(last.program, last.id) # 0

\* a markReceived call that wrote the table and matched a member
Marked ==
  /\ last'.op = "update_user_received"
  /\ last'.result = "written"
  /\ Enrolled(stores[last'.program], last'.id)

\* the row markReceived matches, before the call
MarkedOld == stores[last'.program][first_match(stores[last'.program], last'.id)]

\* and after it
MarkedNew == stores'[last'.program][first_match(stores[last'.program], last'.id)]

\* C3 as stated: markReceived sets hasReceived and a non-empty timestamp, and a
\* second call replaces dateReceived with a later value than the first call stored
C3_AsStated ==
  [][Marked =>
       /\ MarkedNew.HasReceived = "true"
       /\ MarkedNew.DateReceived # <<>>
       /\ MarkedOld.HasReceived = "true"
            => MarkedNew.DateReceived[1] > MarkedOld.DateReceived[1]]_vars

\* C3 amended: markReceived sets hasReceived and a non-empty timestamp, the
\* second of the call; a second call replaces dateReceived with the second of the
\* second call, which is never earlier than the stored one (and equal to it when
\* both calls fall in the same clock second)
C3_MarkReceived ==
  [][Marked =>
       /\ MarkedNew.HasReceived = "true"
       /\ MarkedNew.DateReceived # <<>>
       /\ MarkedNew.DateReceived = <<now \div TicksPerSecond>>
       /\ MarkedOld.HasReceived = "true"
            => MarkedNew.DateReceived[1] >= MarkedOld.DateReceived[1]]_vars

\* a second markReceived in the second of the first: the timestamp is unchanged
C3_Witness ==
  /\ last.op = "update_user_received"
  /\ last.result = "written"
  /\ last.before # <<>>
  /\ stores[last.program][find_user(last.program, last.id)].DateReceived = last.before

\* how many entries of ids are in S
CountIn(ids, S) == Len(SelectSeq(ids, LAMBDA x : x \in S))

\* C4 as stated: N rows with new ids and both fields, M rows duplicating an
\* enrolled member: importBulk returns (imported = N, skipped = M), rows missing a
\* field are in neither count, and the store grows by N
C4_AsStated ==
  (last.op = "import_users_from_csv" /\ last.ok)
    => LET u == last.uploaded
           N == Len(u.ids) - CountIn(u.ids, u.existing)
           M == CountIn(u.ids, u.existing)
       IN /\ last.imported = N
          /\ last.skipped = M
          /\ Len(stores[last.program]) = u.before + N

\* C4 amended: N counts the distinct new ids of the rows that have both fields;
\* the rows duplicating an enrolled member or an earlier row of the same file are
\* the skipped ones; rows missing a field are in neither count; the store grows
\* by N
C4_ImportCounts ==
  (last.op = "import_users_from_csv" /\ last.ok)
    => LET u == last.uploaded
           new == {u.ids[i] : i \in DOMAIN u.ids} \ u.existing
           N == Cardinality(new)
       IN /\ last.imported = N
          /\ last.skipped = Len(u.ids) - N
          /\ last.imported + last.skipped <= u.rows
          /\ Len(stores[last.program]) = u.before + N

\* an import with a new row, a row duplicating an enrolled member, and nothing else
C4_Witness ==
  /\ last.op = "import_users_from_csv" /\ last.ok
  /\ last.imported = 1 /\ last.skipped = 1
  /\ CountIn(last.uploaded.ids, last.uploaded.existing) = 1

\* C5: no two members of one store have the same nationalId after trimming
C5_UniqueIds ==
  \A d \in Dirs : \A i, j \in DOMAIN stores[d] :
    i # j => strip(stores[d][i].NationalID) # strip(stores[d][j].NationalID)

\* an import file that repeats an id was imported into a store that, by then,
\* holds two members
C5_Witness ==
  /\ last.op = "import_users_from_csv" /\ last.ok
  /\ \E i, j \in DOMAIN last.uploaded.ids :
       i # j /\ last.uploaded.ids[i] = last.uploaded.ids[j]
  /\ Len(stores[last.program]) = 2

\* C12: add, importBulk and markReceived never delete a member, never change
\* hasReceived from true back to false, and change no field of an existing
\* member other than the one markReceived targets; an import row that collides
\* with an existing member leaves that member as it was
C12_Frame ==
  [][\A d \in Dirs : \A i \in DOMAIN stores[d] :
       /\ i \in DOMAIN stores'[d]
       /\ stores'[d][i].NationalID = stores[d][i].NationalID
       /\ stores'[d][i].FullName = stores[d][i].FullName
       /\ lower_flag(stores[d][i].HasReceived) = "true"
            => lower_flag(stores'[d][i].HasReceived) = "true"
       /\ stores'[d][i] # stores[d][i]
            => /\ last'.op = "update_user_received"
               /\ last'.program = d
               /\ i = first_match(stores[d], last'.id)]_vars

\* C12 witness: an import has skipped a row that collides with a member who had
\* received, and that member is still in the store, marked and dated
C12_Witness ==
  /\ last.op = "import_users_from_csv" /\ last.ok /\ last.skipped >= 1
  /\ \E i \in DOMAIN stores[last.program] :
       /\ \E k \in DOMAIN last.uploaded.ids :
            last.uploaded.ids[k] = strip(stores[last.program][i].NationalID)
       /\ stores[last.program][i].HasReceived = "true"
       /\ stores[last.program][i].DateReceived # <<>>
       /\ i <= last.uploaded.before

(* ----------------------- claims on the receipts ----------------------- *)
\* a data URI whose payload decodes to an image
Decodable(signature_data) ==
  /\ Len(signature_data) >= 3
  /\ signature_data[1] = "data:image"
  /\ \E i \in 2..Len(signature_data) - 1 :
       /\ signature_data[i] = ","
       /\ \A j \in 1..i - 1 : signature_data[j] # ","
       /\ signature_data[i + 1] \in {"PNG", "PNGA"}
       /\ i + 1 < Len(signature_data) => signature_data[i + 2] = ","

\* the receipt of the last generate_pdf call
Generated == {f \in pdfs[last.program] : f.file = Append(last.id, ".pdf")}

\* C8: generate_pdf with an empty or malformed signature, or one whose payload
\* does not decode, lets no exception escape, saves the document, and the saved
\* document carries the placeholder label instead of an image
C8_AsStated ==
  (/\ last.op = "generate_pdf"
   /\ last.program \in dirs
   /\ ~Decodable(last.signature))
    => /\ last.result = "saved"
       /\ \A f \in Generated : f.signature = "placeholder"
       /\ Generated # {}

(* ------------------------ claims on the routes ------------------------ *)
\* the acknowledgment request that follows the verify request which redirected
\* to it, and succeeds
AcknowledgedAfterVerify ==
  /\ last.op = "verify" /\ last.result = "redirect"
  /\ last'.op = "acknowledgment" /\ last'.result = "success"
  /\ last'.program = last.program /\ last'.id = last.id

\* the program is registered, find shows the member received with a timestamp,
\* and the receipt <program>/<nationalId>.pdf exists
Recorded ==
  LET users == stores'[last'.program]
      k == first_match(users, last'.id)
  IN /\ KeyExists(registry', last'.program)
     /\ k # 0
     /\ users[k].HasReceived = "true"
     /\ users[k].DateReceived # <<>>
     /\ \E f \in pdfs'[last'.program] : f.file = Append(last'.id, ".pdf")

\* a listing requested right after a successful acknowledgment in that program
ListedAfterAcknowledgment ==
  /\ last.op = "view_pdfs" /\ last.result = "listed"
  /\ last.acknowledged # <<>>

\* C9 as stated: after register, add, verify (member unreceived) and the
\* acknowledgment, find shows hasReceived with a timestamp, the receipt exists,
\* and listReceipts returns that receipt as its first entry
C9_AsStated ==
  /\ [][AcknowledgedAfterVerify => Recorded]_vars
  /\ [](ListedAfterAcknowledgment =>
          /\ last.pdfs # <<>>
          /\ last.pdfs[1].filename = Append(last.acknowledged[1], ".pdf"))

\* C9 amended: ... and listReceipts lists that receipt with no receipt of a later
\* second anywhere and only receipts of its own second before it: it is the first
\* entry unless an older receipt was written within the same clock second
C9_EndToEnd ==
  /\ [][AcknowledgedAfterVerify => Recorded]_vars
  /\ [](ListedAfterAcknowledgment =>
          \E k \in DOMAIN last.pdfs :
            /\ last.pdfs[k].filename = Append(last.acknowledged[1], ".pdf")
            /\ \A j \in DOMAIN last.pdfs : last.pdfs[j].date[1] <= last.pdfs[k].date[1]
            /\ \A j \in 1..k - 1 : last.pdfs[j].date = last.pdfs[k].date)

\* the listing right after an acknowledgment shows the new receipt first and an
\* older receipt of another member, of an earlier second, after it
C9_Witness ==
  /\ ListedAfterAcknowledgment
  /\ Len(last.pdfs) >= 2
  /\ last.pdfs[1].filename = Append(last.acknowledged[1], ".pdf")
  /\ last.pdfs[2].date[1] < last.pdfs[1].date[1]

\* C10: no verify or acknowledgment request touches the record of a member whose
\* hasReceived is already true: its dateReceived is never overwritten
C10_AsStated ==
  [][last'.op \in {"verify", "acknowledgment"} =>
       \A d \in Dirs : \A i \in DOMAIN stores[d] :
         lower_flag(stores[d][i].HasReceived) = "true"
           => i \in DOMAIN stores'[d] /\ stores'[d][i] = stores[d][i]]_vars

(* ------------------ claims on the handlers' calls --------------------- *)
\* the program directory holds the receipt file <id>.pdf
ReceiptFor(p, id) == \E f \in pdfs[p] : f.file = Append(id, ".pdf")

\* the store holds a member with exactly this NationalID, marked as received
ReceivedExactly(p, id) ==
  \E i \in DOMAIN stores[p] :
     /\ stores[p][i].NationalID = id
     /\ lower_flag(stores[p][i].HasReceived) = "true"

\* the store holds a member this id finds (equal after strip), marked as received
ReceivedTrimmed(p, id) ==
  \E i \in DOMAIN stores[p] :
     /\ strip(stores[p][i].NationalID) = strip(id)
     /\ lower_flag(stores[p][i].HasReceived) = "true"

\* C11 as stated: in every state, a receipt file exists for (program, nationalId)
\* if and only if the program's store holds a member with that nationalId and
\* hasReceived = true
C11_AsStated ==
  \A p \in Dirs, id \in UrlIds : ReceiptFor(p, id) <=> ReceivedExactly(p, id)

\* C11 amended: in every state, a receipt file exists for (program, id) only if
\* the store holds a member that id finds (equal after trimming) with
\* hasReceived = true, and an acknowledgment that returned success has left the
\* receipt of its id; a member can be marked with no receipt, while
\* generate_pdf has not run or after it failed
C11_ReceiptOnlyIfRecorded ==
  /\ \A p \in Dirs, id \in UrlIds : ReceiptFor(p, id) => ReceivedTrimmed(p, id)
  /\ (last.op = "acknowledgment" /\ last.result = "success")
       => ReceiptFor(last.program, last.id) /\ ReceivedTrimmed(last.program, last.id)

\* C11 witness: an acknowledgment has succeeded and left its receipt, while
\* another member is marked as received and has no receipt
C11_Witness ==
  /\ last.op = "acknowledgment" /\ last.result = "success"
  /\ ReceiptFor(last.program, last.id)
  /\ \E id \in UrlIds :
       /\ ReceivedExactly(last.program, id)
       /\ \A u \in UrlIds : strip(u) = strip(id) => ~ReceiptFor(last.program, u)

(* ---------------- claims on concurrent store functions ---------------- *)
\* what request r reported is in the store: the member it added, the mark it
\* set, the members it imported
Kept(r) ==
  LET q == requests[r]
      users == stores[q.program]
  IN /\ (q.op = "add_user_to_program" /\ q.result = "added")
          => \E i \in DOMAIN users : users[i].NationalID = q.id
     /\ (q.op = "update_user_received" /\ q.result = "marked")
          => LET k == first_match(users, q.id)
             IN k # 0 /\ users[k].HasReceived = "true"
     /\ q.op = "import_users_from_csv"
          => \A j \in DOMAIN q.ids : \E i \in DOMAIN users : users[i].NationalID = q.ids[j]

\* request r has written the file
Wrote(r) == r \in finished /\ requests[r].turn > 0

\* another request read the file before r returned and wrote it after r did
Overtaken(r) ==
  \E x \in Requests \ {r} :
     /\ Wrote(x)
     /\ requests[x].turn > requests[r].turn
     /\ r \notin requests[x].seen

\* C13: concurrent writers to one store are not serialized.  The last writer
\* wins: once the file was written, it holds exactly the list the last writer
\* built from its own read; and the update of a request is missing from the
\* store only when another request interleaved with it, reading before it
\* returned and writing after it
C13_LastWriterWins ==
  /\ \A r \in Requests :
       (Wrote(r) /\ requests[r].turn = writes) => stores[requests[r].program] = requests[r].users
  /\ \A r \in Requests : (Wrote(r) /\ ~Kept(r)) => Overtaken(r)

\* C13 witness: both requests have returned, one reported the member added, and
\* the other, which read before and wrote after, has left a store without that
\* member
C13_Witness ==
  /\ finished = Requests
  /\ \E r \in Requests :
       /\ requests[r].op = "add_user_to_program"
       /\ requests[r].result = "added"
       /\ Wrote(r)
       /\ Overtaken(r)
       /\ \A i \in DOMAIN stores[requests[r].program] :
            stores[requests[r].program][i].NationalID # requests[r].id

====
